---- MODULE Spec2Model ----
(***************************************************************************)
(* Client-side session lifecycle of the task-management application:       *)
(* AuthService (login, logout, autoLogin, verifyToken, handleAuthentication*)
(* and the refresh timer), AuthInterceptor and ErrorInterceptor.           *)
(*                                                                         *)
(* The browser runs one handler at a time to completion, so every handler  *)
(* (a call made by the application, the delivery of an HTTP response, the  *)
(* firing of a timer) is one action.  A handler is written as a function   *)
(* from a record of the client's fields to the record after the handler;   *)
(* the record also carries ev, the trace of the handler (calls made,       *)
(* requests sent, what was reported to the caller), which the properties   *)
(* read and the next state drops.                                          *)
(***************************************************************************)
EXTENDS Integers, Sequences, FiniteSets, Bags, TLC

\* ------------------------------------------------------------------ bounds
MaxCalls == 2       \* calls the application makes (login, logout, autoLogin, requests)
MaxTime == 2        \* the clock runs over 0..MaxTime (seconds)
MaxPending == 2     \* requests in flight plus delayed callbacks
ShortExp == 1       \* expiry of a short-lived token: inside the margin at time 0
LongExp == 61       \* expiry of a long-lived token: beyond the margin at time 0

\* ------------------------------------------------------- program constants
Margin == 60        \* "Refresh 1 minute before expiry"
NoTimer == 0        \* refreshTokenTimeout = null

Null == [null |-> TRUE]

\* ------------------------------------------------------------------ tokens
\* A token string is the list of its '.'-separated segments; the payload
\* segment is written decoded.  The empty string is the empty list.
EmptyToken == [segs |-> <<>>]
OpaqueToken == [segs |-> <<"mock-token">>]
NoExpToken == [segs |-> <<"hdr", [sub |-> "1"], "sig">>]
JwtToken(exp) == [segs |-> <<"hdr", [sub |-> "1", exp |-> exp], "sig">>]

Falsy(token) == token = Null \/ token = EmptyToken

\* token.split('.')[1] decoded; any exception gives null
parseJwt(token) ==
  IF Len(token.segs) < 2 THEN Null ELSE token.segs[2]

\* tokenData && tokenData.exp
HasExp(tokenData) ==
  /\ tokenData # Null
  /\ "exp" \in DOMAIN tokenData
  /\ tokenData.exp # 0

\* -------------------------------------------------------------------- URLs
\* A URL is the list of its path segments below the origin.
ApiUrl == <<"api">>
LoginUrl == <<"api", "auth", "login">>
LogoutUrl == <<"api", "auth", "logout">>
RefreshUrl == <<"api", "auth", "refresh">>
VerifyUrl == <<"api", "auth", "verify">>
TasksUrl == <<"api", "tasks">>
UsersUrl == <<"api", "users">>
AssetUrl == <<"assets", "config">>
AppUrls == {TasksUrl, UsersUrl, AssetUrl}

\* request.url.startsWith(environment.apiUrl)
isApiUrl(url) == Len(url) >= Len(ApiUrl) /\ SubSeq(url, 1, Len(ApiUrl)) = ApiUrl
\* request.url.includes('/' + seg)
UrlIncludes(url, seg) == \E i \in 1..Len(url) : url[i] = seg

\* ------------------------------------------------------------------- users
Alice == [id |-> "1", name |-> "Alice", email |-> "alice@example.com", role |-> "user"]
NoIdUser == [id |-> "", name |-> "Carol", email |-> "carol@example.com", role |-> "user"]
UserDatas == {Null, NoIdUser, Alice}

\* The tokens a response may carry
RespTokens ==
  {Null, EmptyToken, OpaqueToken, NoExpToken, JwtToken(ShortExp), JwtToken(LongExp)}

Statuses == {200, 401, 403, 404, 500}

VARIABLES
  userSubject,          \* BehaviorSubject<User | null>
  refreshTokenTimeout,  \* handle of the refresh timer, or NoTimer
  timers,               \* the browser's pending refresh timers: [id, fireAt]
  authTimeouts,         \* pending 50 ms callbacks of handleAuthentication, oldest first
  http,                 \* bag of the requests in flight
  now,                  \* Date.now() in seconds
  calls                 \* calls the application has made

VARIABLES
  users,                \* the server's user collection: documents of UserModel
  lastId,               \* number of ObjectIds the database has handed out
  cookie,               \* the browser's 'token' cookie for the server, or Null
  registering           \* inputs of the register calls waiting after their emailExists

cliVars == <<userSubject, refreshTokenTimeout, timers, authTimeouts, http, calls>>
srvVars == <<users, lastId, cookie, registering>>
vars == <<userSubject, refreshTokenTimeout, timers, authTimeouts, http, now, calls,
          users, lastId, cookie, registering>>

\* ------------------------------------------------------------ handler state
\* The trace a handler leaves: what it was, what it called and what it reported.
BlankEv(op) ==
  [op |-> op,              \* the handler
   icptCalls |-> 0,        \* verifyToken() calls made by ErrorInterceptor
   schedCalls |-> 0,       \* verifyToken() calls made by the refresh scheduler
   sent |-> 0,             \* refresh requests sent
   retries |-> 0,          \* requests retried by handleUnauthorizedError
   retryBearer |-> Null,   \* bearer token of the retried request
   armed |-> 0,            \* refresh timers scheduled
   logouts |-> 0,          \* logout() calls
   nav |-> "",             \* last router.navigate target
   snack |-> "",           \* last message shown by snackBar.open
   emits |-> 0,            \* userSubject.next() calls: notifications to subscribers
   loginOut |-> "",        \* what login() reported: "next" or "error"
   authSuccess |-> FALSE]  \* authSuccess of the value login() emitted

Begin(op) ==
  [user |-> userSubject, handle |-> refreshTokenTimeout, timers |-> timers,
   authq |-> authTimeouts, http |-> http, ev |-> BlankEv(op)]

\* The verify request of autoLogin, sent once at startup, is not counted
WithinBounds(s) ==
  BagCardinality(s.http) + Len(s.authq)
    <= MaxPending + Cardinality({r \in BagToSet(s.http) : r.kind = "verify"})

Commit(s) ==
  /\ WithinBounds(s)
  /\ userSubject' = s.user
  /\ refreshTokenTimeout' = s.handle
  /\ timers' = s.timers
  /\ authTimeouts' = s.authq
  /\ http' = s.http

\* A request in flight.  bearer is its Authorization header; it is kept for the
\* requests ErrorInterceptor may retry, and left out of login and refresh
\* requests, whose header no handler of the client reads.
Req(kind, url, bearer, nav, origin, orig, retry) ==
  [kind |-> kind, url |-> url, bearer |-> bearer, nav |-> nav,
   origin |-> origin, orig |-> orig, retry |-> retry]

Send(s, r) == [s EXCEPT !.http = @ (+) SetToBag({r})]

\* ------------------------------------------------------------ AuthService
isAuthenticated(s) == s.user # Null

\* this.userSubject.next(value): the value is stored and every subscriber is told
userSubjectNext(s, value) ==
  [s EXCEPT !.user = value, !.ev.emits = @ + 1]

\* this.snackBar.open(message, ...)
snackBarOpen(s, message) ==
  [s EXCEPT !.ev.snack = message]

\* AuthInterceptor: the Authorization header a request leaves with
AuthInterceptor(s, url) ==
  IF isApiUrl(url) /\ s.user # Null /\ ~Falsy(s.user.token)
  THEN s.user.token ELSE Null

\* stopRefreshTokenTimer without clearTimeout: the handle is dropped, the timer stays
stopRefreshTokenTimerNoClear(s) ==
  [s EXCEPT !.handle = NoTimer]

stopRefreshTokenTimer(s) ==
  IF s.handle # NoTimer
  THEN [s EXCEPT !.timers = {t \in @ : t.id # s.handle}, !.handle = NoTimer]
  ELSE s

\* logout(): the session is cleared by the callbacks of the logout request
logout(s, navigateToLogin) ==
  LET s1 == stopRefreshTokenTimer(s)
      s2 == [s1 EXCEPT !.ev.logouts = @ + 1]
  IN Send(s2, Req("logout", LogoutUrl, AuthInterceptor(s2, LogoutUrl),
                  navigateToLogin, "", Null, FALSE))

\* tokenData && tokenData.exp && tokenData.exp < currentTime
TokenExpired(tokenData) == HasExp(tokenData) /\ tokenData.exp < now

\* verifyToken(): [s: the state after the call, sent: a request is in flight]
verifyToken(s, origin, orig) ==
  LET currentUser == s.user
      s0 == [s EXCEPT !.ev.icptCalls = @ + (IF origin = "intercept" THEN 1 ELSE 0),
                      !.ev.schedCalls = @ + (IF origin = "sched" THEN 1 ELSE 0)]
  IN IF currentUser = Null \/ Falsy(currentUser.token)
     THEN [s |-> s0, sent |-> FALSE]
     ELSE IF TokenExpired(parseJwt(currentUser.token))
     THEN [s |-> s0, sent |-> FALSE]
     ELSE [s |-> Send([s0 EXCEPT !.ev.sent = @ + 1],
                      Req("refresh", RefreshUrl, Null, FALSE, origin, orig, FALSE)),
           sent |-> TRUE]

\* void this.verifyToken().subscribe(): no error callback
SchedulerVerify(s) == verifyToken(s, "sched", Null).s

\* The delay without the margin: the timer would fire at the expiry itself
RefreshDelayNoMargin(exp) == exp - now

\* expires.getTime() - Date.now() - (60 * 1000), in seconds
RefreshDelay(exp) == exp - now - Margin

NewTimerId(s) ==
  CHOOSE i \in 1..(Cardinality(s.timers) + 1) :
    /\ \A t \in s.timers : t.id # i
    /\ \A j \in 1..(i - 1) : \E t \in s.timers : t.id = j

startRefreshTokenTimer(s) ==
  LET s1 == stopRefreshTokenTimer(s)
      user == s1.user
  IN IF user = Null \/ Falsy(user.token) THEN s1
     ELSE LET jwtToken == parseJwt(user.token) IN
       IF ~HasExp(jwtToken) THEN s1
       ELSE LET timeout == RefreshDelay(jwtToken.exp)
                id == NewTimerId(s1)
            IN IF timeout > 0
               THEN [s1 EXCEPT !.timers = @ \cup {[id |-> id, fireAt |-> now + timeout]},
                               !.handle = id,
                               !.ev.armed = @ + 1]
               ELSE SchedulerVerify(s1)

\* The AuthResponse built from a response body
AuthResponseOf(userData, token) ==
  [id |-> userData.id, name |-> userData.name, email |-> userData.email,
   role |-> userData.role, token |-> token]

\* handleAuthentication(): [s, settled: the promise resolved false at once]
handleAuthentication(s, response, origin) ==
  IF response = Null \/ Falsy(response.token) \/ response.id = ""
  THEN [s |-> s, settled |-> TRUE]
  ELSE IF ~HasExp(parseJwt(response.token))
  THEN [s |-> s, settled |-> TRUE]
  ELSE [s |-> [userSubjectNext(s, Null) EXCEPT
                 !.authq = Append(@, [user |-> response, origin |-> origin])],
        settled |-> FALSE]

\* login(): the value emitted to the subscriber
EmitLogin(s, authSuccess) ==
  [s EXCEPT !.ev.loginOut = "next", !.ev.authSuccess = authSuccess]

\* -------------------------------------------------- what a subscriber is told
\* The error callback of the subscriber of a request that is not a refresh
ErrorOf(s, r) ==
  CASE r.kind = "login" ->
         \* catchError -> handleError -> throwError
         [s EXCEPT !.ev.loginOut = "error"]
    [] r.kind = "logout" ->
         [userSubjectNext(s, Null) EXCEPT !.ev.nav = IF r.nav THEN "/login" ELSE @]
    [] r.kind = "verify" ->
         userSubjectNext(s, Null)
    [] OTHER -> s

\* An error callback that arms the scheduler again
SchedulerOnErrorRearm(s) == startRefreshTokenTimer(s)

\* subscribe() of the scheduler has no error callback: the error is dropped
SchedulerOnError(s) == s

\* catchError of handleUnauthorizedError
UnauthorizedCatchError(s) ==
  snackBarOpen([logout(s, TRUE) EXCEPT !.ev.nav = "/login"],
               "Session expired. Please log in again.")

\* A failed verifyToken(): catchError rethrows to whoever subscribed
RefreshFailed(s, r) ==
  IF r.origin = "sched"
  THEN SchedulerOnError(s)
  ELSE ErrorOf(UnauthorizedCatchError(s), r.orig)

\* The next callback of the subscriber of a request that is not a refresh
NextOf(s, r, body) ==
  CASE r.kind = "login" ->
         LET userData == body.user
             token == body.token
         IN IF userData = Null \/ Falsy(token) \/ userData.id = ""
            THEN EmitLogin(s, FALSE)
            ELSE LET h == handleAuthentication(s, AuthResponseOf(userData, token), "login")
                 IN IF h.settled
                    THEN EmitLogin(h.s, isAuthenticated(h.s))
                    ELSE h.s
    [] r.kind = "logout" ->
         [userSubjectNext(s, Null) EXCEPT !.ev.nav = IF r.nav THEN "/login" ELSE @]
    [] r.kind = "verify" ->
         LET userData == body.user
             token == body.token
         IN IF userData # Null /\ userData.id # "" /\ ~Falsy(token)
            THEN startRefreshTokenTimer(
                   userSubjectNext(s, AuthResponseOf(userData, token)))
            ELSE s
    [] OTHER -> s

\* switchMap of handleUnauthorizedError: the retry of the original request
RetryBearer(s, request) ==
  IF s.user # Null /\ ~Falsy(s.user.token) THEN s.user.token ELSE request.bearer

RetryRequest(s, request) ==
  Send([s EXCEPT !.ev.retries = @ + 1,
                 !.ev.retryBearer = RetryBearer(s, request)],
       [request EXCEPT !.bearer = RetryBearer(s, request), !.retry = TRUE])

\* map of verifyToken(), then the subscriber
RefreshSucceeded(s, r, body) ==
  IF body.user = Null
  THEN \* userData.id of undefined throws inside map
       RefreshFailed(s, r)
  ELSE LET h == handleAuthentication(s, AuthResponseOf(body.user, body.token), "refresh")
       IN IF r.origin = "sched" THEN h.s ELSE RetryRequest(h.s, r.orig)

\* --------------------------------------------------------- ErrorInterceptor
\* The condition without the test of the current user
ShouldRefreshNoSession(s, request) ==
  /\ isApiUrl(request.url)
  /\ ~UrlIncludes(request.url, "refresh")

\* isApiUrl && !isRefreshRequest && this.authService.getCurrentUser()
ShouldRefresh(s, request) ==
  /\ isApiUrl(request.url)
  /\ ~UrlIncludes(request.url, "refresh")
  /\ s.user # Null

\* handleUnauthorizedError: [s, pending: the refresh request is in flight]
handleUnauthorizedError(s, request) ==
  LET v == verifyToken(s, "intercept", request)
  IN IF v.sent
     THEN [s |-> v.s, pending |-> TRUE]
     ELSE [s |-> UnauthorizedCatchError(v.s), pending |-> FALSE]

\* intercept: catchError of the failed response of request.
\* [s, pending: the subscriber is not told yet, a refresh is under way]
ErrorInterceptor(s, request, status) ==
  IF status = 401
  THEN IF UrlIncludes(request.url, "login")
       THEN [s |-> snackBarOpen(s, "Invalid email or password"), pending |-> FALSE]
       ELSE IF UrlIncludes(request.url, "tasks")
       THEN \* return throwError: the snackbar is not reached
            [s |-> s, pending |-> FALSE]
       ELSE IF ShouldRefresh(s, request)
       THEN handleUnauthorizedError(s, request)
       ELSE IF UrlIncludes(request.url, "refresh")
       THEN [s |-> snackBarOpen([logout(s, TRUE) EXCEPT !.ev.nav = "/login"],
                                "Session expired. Please log in again."),
             pending |-> FALSE]
       ELSE IF s.user = Null
       THEN [s |-> snackBarOpen(s, "Authentication required. Please log in."),
             pending |-> FALSE]
       ELSE [s |-> snackBarOpen(s, "401: Unauthorized"), pending |-> FALSE]
  ELSE IF status = 403
  THEN [s |-> snackBarOpen([s EXCEPT !.ev.nav = "/tasks"],
                           "You do not have permission to access this resource."),
        pending |-> FALSE]
  ELSE IF status = 404
  THEN [s |-> snackBarOpen(s, "Resource not found."), pending |-> FALSE]
  ELSE [s |-> snackBarOpen(s, "Server error. Please try again later."), pending |-> FALSE]

\* The whole handling of a response
Deliver(s, r, status, body) ==
  IF r.retry
  THEN \* the retry is subscribed inside handleUnauthorizedError
       IF status = 200
       THEN NextOf(s, r, body)
       ELSE ErrorOf(UnauthorizedCatchError(s), r)
  ELSE IF status = 200
  THEN IF r.kind = "refresh" THEN RefreshSucceeded(s, r, body) ELSE NextOf(s, r, body)
  ELSE LET e == ErrorInterceptor(s, r, status)
       IN IF e.pending THEN e.s
          ELSE IF r.kind = "refresh" THEN RefreshFailed(e.s, r) ELSE ErrorOf(e.s, r)

\* --------------------------------------------------------------- AuthGuard
\* hasRole that only looks for a user
hasRoleAnyUser(s, role) == s.user # Null

\* AuthService.hasRole: !!user && user.role === role
hasRole(s, role) == s.user # Null /\ s.user.role = role

\* route.data of the routes: requiredRole, "" when the route declares none
Routes == {[requiredRole |-> role] : role \in {"", "user", "admin"}}

\* state.url of the navigation
RequestedUrls == {<<"tasks">>, <<"admin", "users">>}

\* router.createUrlTree(commands, {queryParams})
UrlTree(commands, returnUrl) == [commands |-> commands, returnUrl |-> returnUrl]

\* AuthGuard.canActivate: [s: the state it leaves, allow: it returned true,
\* tree: the UrlTree it returned, Null with allow]
canActivate(s, route, url) ==
  IF isAuthenticated(s)
  THEN IF route.requiredRole # "" /\ ~hasRole(s, route.requiredRole)
       THEN [s |-> s, allow |-> FALSE, tree |-> UrlTree("/tasks", Null)]
       ELSE [s |-> s, allow |-> TRUE, tree |-> Null]
  ELSE [s |-> s, allow |-> FALSE, tree |-> UrlTree("/login", url)]

\* ------------------------------------------------------------------ server
\* ---- strings the server transforms, written as lists of characters
\* An email is the list <<local part, "@", domain, ".", top-level domain>>.
Email(local) == <<local, "@", "example", ".", "com">>
EmailNoAt == <<"a", "example", ".", "com">>

\* String.prototype.toLowerCase, character by character
LowerChar(c) ==
  CASE c = "A" -> "a"
    [] c = "B" -> "b"
    [] OTHER -> c

toLowerCase(str) == [i \in DOMAIN str |-> LowerChar(str[i])]

\* /^[^\s@]+@[^\s@]+\.[^\s@]+$/
isValidEmail(email) ==
  /\ Len(email) = 5
  /\ email[2] = "@" /\ email[4] = "."
  /\ \A i \in {1, 3, 5} : email[i] \notin {"", " ", "@"}

\* ---- bcrypt
bcryptHash(password) == [bcrypt |-> password]
bcryptCompare(candidate, hash) == hash = bcryptHash(candidate)

\* ---- jsonwebtoken
JwtSecret == "default_jwt_secret_key_for_development"
ExpiresIn == 604800    \* '7d' in seconds

\* jwt.sign(payload, secret, {expiresIn}) at time iat
SignedAt(payload, secret, iat) ==
  LET claims == payload @@ [exp |-> iat + ExpiresIn]
  IN [segs |-> <<"hdr", claims, [hmac |-> claims, key |-> secret]>>]

jwtSign(payload) == SignedAt(payload, JwtSecret, now)

\* jwt.verify(token, secret): the decoded claims, or the name of the error thrown
jwtVerify(token) ==
  IF token = Null \/ Len(token.segs) # 3
  THEN [name |-> "JsonWebTokenError"]
  ELSE IF token.segs[3] # [hmac |-> token.segs[2], key |-> JwtSecret]
  THEN [name |-> "JsonWebTokenError"]
  ELSE IF now >= token.segs[2].exp
  THEN [name |-> "TokenExpiredError"]
  ELSE [name |-> "", decoded |-> token.segs[2]]

\* ---- the user collection
AdminDoc ==
  [id |-> 1, name |-> "Admin User", email |-> Email("admin"),
   password |-> bcryptHash("password123"), role |-> "admin"]

\* The collection the server starts with: of the seeded users the administrator;
\* the seeded ordinary users are like the users that register
SeededUsers == {AdminDoc}

\* UserRepository.mapToEntity
mapToEntity(doc) == doc

\* UserRepository.findById
findById(id) ==
  IF \E u \in users : u.id = id
  THEN mapToEntity(CHOOSE u \in users : u.id = id) ELSE Null

\* UserRepository.findByEmail: findOne({email: email.toLowerCase()})
findByEmail(email) ==
  IF \E u \in users : u.email = toLowerCase(email)
  THEN mapToEntity(CHOOSE u \in users : u.email = toLowerCase(email)) ELSE Null

\* emailExists that compares the email as it was typed
emailExistsCaseSensitive(email) ==
  Cardinality({u \in users : u.email = email}) > 0

\* UserRepository.emailExists: countDocuments({email: email.toLowerCase()}) > 0
emailExists(email) ==
  Cardinality({u \in users : u.email = toLowerCase(email)}) > 0

\* User entity: validate()
ValidationError(userData) ==
  IF Len(userData.name) < 2 THEN "Name must be at least 2 characters long"
  ELSE IF ~isValidEmail(userData.email) THEN "Valid email is required"
  ELSE IF Len(userData.password) < 6 THEN "Password must be at least 6 characters long"
  ELSE ""

\* ---- requests and responses
RegisterUrl == <<"api", "auth", "register">>

\* An HTTP request as the server sees it.  authorization is the header (Null, or
\* its scheme and the text after the first space); cookie is the browser's
\* 'token' cookie as sent in the Cookie header; param is the :id of the path.
SrvReq(method, url, authorization, cookieSent, param, body) ==
  [method |-> method, url |-> url, authorization |-> authorization,
   cookie |-> cookieSent, param |-> param, body |-> body]

Bearer(token) == [scheme |-> "Bearer", token |-> token]

\* res.clearCookie('token')
ClearedCookie == [cleared |-> TRUE]

\* res.status(status).json(...), with the 'token' cookie the response sets:
\* Null for none, a token, or ClearedCookie
Res(status, message, user, token, setCookie) ==
  [status |-> status, message |-> message, user |-> user, token |-> token,
   setCookie |-> setCookie]

\* What a handler leaves: the response and the collection
Out(res, us, n) == [res |-> res, users |-> us, lastId |-> n]

\* new AppError(message, statusCode); statusCode 0 for a plain Error
Err(message, statusCode) == [message |-> message, statusCode |-> statusCode]

\* errorHandler: (err as AppError).statusCode || 500
errorHandler(err) ==
  Res(IF err.statusCode # 0 THEN err.statusCode ELSE 500,
      IF err.message # "" THEN err.message ELSE "Internal Server Error",
      Null, Null, Null)

\* An async route handler throws: the error reaches errorHandler
asyncThrow(err) == errorHandler(err)

\* notFound
notFound(req) == errorHandler(Err("Route not found", 404))

\* The public fields of a user
PublicUser(u) == [id |-> u.id, name |-> u.name, email |-> u.email, role |-> u.role]

\* ---- use cases
\* The error MongoDB raises when the unique index on email rejects an insert
DuplicateKey == "E11000 duplicate key error"

\* RegisterUserUseCase.execute after its emailExists check: new User(...) and
\* UserRepository.create.  [error, user, users, lastId]
RegisterSave(input) ==
  IF ValidationError(input) # ""
  THEN [error |-> ValidationError(input), user |-> Null, users |-> users, lastId |-> lastId]
  ELSE \* UserModel.create: the schema stores the email lowercased, unique
       LET doc == [id |-> lastId + 1, name |-> input.name,
                   email |-> toLowerCase(input.email),
                   password |-> bcryptHash(input.password), role |-> "user"]
       IN IF \E u \in users : u.email = doc.email
          THEN [error |-> DuplicateKey, user |-> Null, users |-> users, lastId |-> lastId]
          ELSE [error |-> "", user |-> PublicUser(doc),
                users |-> users \cup {doc}, lastId |-> lastId + 1]

\* RegisterUserUseCase.execute: [error, user, users, lastId]
RegisterUserUseCase(input) ==
  IF emailExists(input.email)
  THEN [error |-> "Email already in use", user |-> Null, users |-> users, lastId |-> lastId]
  ELSE RegisterSave(input)

\* A login that tells an unknown email from a wrong password
LoginUserUseCaseUserNotFound(input) ==
  LET user == findByEmail(input.email)
  IN IF user = Null
     THEN [error |-> "User not found", user |-> Null, token |-> Null]
     ELSE IF ~bcryptCompare(input.password, findById(user.id).password)
     THEN [error |-> "Invalid email or password", user |-> Null, token |-> Null]
     ELSE [error |-> "", user |-> PublicUser(user),
           token |-> jwtSign([id |-> user.id, email |-> user.email, role |-> user.role])]

\* LoginUserUseCase.execute: [error, user, token]
LoginUserUseCase(input) ==
  LET user == findByEmail(input.email)
  IN IF user = Null
     THEN [error |-> "Invalid email or password", user |-> Null, token |-> Null]
     ELSE IF findById(user.id) = Null
     THEN [error |-> "User not found", user |-> Null, token |-> Null]
     ELSE IF ~bcryptCompare(input.password, findById(user.id).password)
     THEN [error |-> "Invalid email or password", user |-> Null, token |-> Null]
     ELSE [error |-> "", user |-> PublicUser(user),
           token |-> jwtSign([id |-> user.id, email |-> user.email, role |-> user.role])]

\* ---- AuthController
\* AuthController.register once the use case has returned or thrown
RegisterAnswer(result) ==
  IF result.error = ""
  THEN Out(Res(201, "User registered successfully", result.user, Null, Null),
           result.users, result.lastId)
  ELSE IF result.error = "Email already in use"
  THEN Out(asyncThrow(Err("Email already in use", 400)), users, lastId)
  ELSE Out(asyncThrow(Err(result.error, 0)), users, lastId)

AuthController_register(req) == RegisterAnswer(RegisterUserUseCase(req.body))

AuthController_login(req) ==
  LET result == LoginUserUseCase(req.body)
  IN IF result.error = ""
     THEN Out(Res(200, "Login successful", result.user, result.token, result.token),
              users, lastId)
     ELSE IF result.error = "Invalid email or password"
     THEN Out(asyncThrow(Err("Invalid email or password", 401)), users, lastId)
     ELSE Out(asyncThrow(Err(result.error, 0)), users, lastId)

\* req.cookies: the application installs no cookie parser (helmet, cors, json,
\* urlencoded, morgan only), so the property is never set
Undefined == [undefined |-> TRUE]
reqCookies(req) == Undefined

\* req.header('Authorization')?.replace('Bearer ', '')
HeaderToken(req) ==
  IF req.authorization = Null THEN Null
  ELSE IF req.authorization.scheme = "Bearer" THEN req.authorization.token
  ELSE [segs |-> <<req.authorization.scheme>>]

\* The body of refreshToken once token is read
refreshWith(token) ==
  IF token = Null \/ token = EmptyToken
  THEN Res(401, "No token provided", Null, Null, Null)
  ELSE LET v == jwtVerify(token)
       IN IF v.name = "TokenExpiredError"
          THEN Res(401, "Token expired", Null, Null, Null)
          ELSE IF v.name = "JsonWebTokenError"
          THEN Res(401, "Invalid token", Null, Null, Null)
          ELSE LET user == findById(v.decoded.id)
               IN IF user = Null
                  THEN Res(401, "User not found", Null, Null, Null)
                  ELSE LET newToken == jwtSign([id |-> v.decoded.id,
                                                email |-> v.decoded.email,
                                                role |-> v.decoded.role,
                                                name |-> user.name])
                       IN Res(200, "Token refreshed successfully",
                              PublicUser(user), newToken, newToken)

\* AuthController.refreshToken: req.cookies.token || header
AuthController_refreshToken(req) ==
  IF reqCookies(req) = Undefined
  THEN \* TypeError in the try block: the generic catch
       Res(500, "Failed to refresh token", Null, Null, Null)
  ELSE refreshWith(IF reqCookies(req).token # Null
                   THEN reqCookies(req).token ELSE HeaderToken(req))

AuthController_logout(req) ==
  Res(200, "Logged out successfully", Null, Null, ClearedCookie)

\* ---- auth.middleware
\* The token the middleware verifies: the Authorization header only.
\* [status: 0 to go on to the next handler, message, user: req.user]
BearerCheck(req, missingHeader, missingToken) ==
  IF req.authorization = Null \/ req.authorization.scheme # "Bearer"
  THEN [status |-> 401, message |-> missingHeader, user |-> Null]
  ELSE IF req.authorization.token = EmptyToken
  THEN [status |-> 401, message |-> missingToken, user |-> Null]
  ELSE LET v == jwtVerify(req.authorization.token)
       IN IF v.name # ""
          THEN [status |-> 401, message |-> "Invalid or expired token", user |-> Null]
          ELSE [status |-> 0, message |-> "",
                user |-> [id |-> v.decoded.id, email |-> v.decoded.email,
                          role |-> v.decoded.role]]

authenticate(req) ==
  BearerCheck(req, "Authentication required", "Authentication token missing")

validateToken(req) ==
  BearerCheck(req, "Token required", "Token missing")

\* authorize([UserRole.ADMIN]), after authenticate
authorize(reqUser, roles) ==
  IF reqUser = Null THEN 401
  ELSE IF reqUser.role \notin roles THEN 403
  ELSE 0

\* ---- user and task routes (behind router.use(authenticate))
\* DELETE /api/users/:id
deleteUserRoute(req, reqUser) ==
  IF authorize(reqUser, {"admin"}) # 0
  THEN Out(Res(authorize(reqUser, {"admin"}), "Insufficient permissions", Null, Null, Null),
           users, lastId)
  ELSE IF findById(req.param) = Null
  THEN Out(asyncThrow(Err("User not found", 404)), users, lastId)
  ELSE Out(Res(200, "User deleted successfully", Null, Null, Null),
           {u \in users : u.id # req.param}, lastId)

\* An absent or empty email of a request body
NoEmail == <<>>

\* PUT /api/users/:id with body {name, email}
updateUserRoute(req, reqUser) ==
  IF req.param # reqUser.id /\ reqUser.role # "admin"
  THEN Out(asyncThrow(Err("You do not have permission to update this user", 403)),
           users, lastId)
  ELSE IF findById(req.param) = Null
  THEN Out(asyncThrow(Err("User not found", 404)), users, lastId)
  ELSE LET existingUser == findById(req.param)
           name == req.body.name
           email == req.body.email
       IN IF email # NoEmail /\ email # existingUser.email /\ emailExists(email)
          THEN Out(asyncThrow(Err("Email already in use", 400)), users, lastId)
          ELSE IF email # NoEmail /\ ~isValidEmail(email)
          THEN \* runValidators: the schema's match
               Out(asyncThrow(Err("Validation failed", 0)), users, lastId)
          ELSE LET updatedUser ==
                     [existingUser EXCEPT
                        !.name = IF name # "" THEN name ELSE @,
                        !.email = IF email # NoEmail THEN toLowerCase(email) ELSE @]
               IN Out(Res(200, "User updated successfully", PublicUser(updatedUser),
                          Null, Null),
                      (users \ {existingUser}) \cup {updatedUser}, lastId)

ProtectedRoute(req) ==
  LET a == authenticate(req)
  IN IF a.status # 0
     THEN Out(Res(a.status, a.message, Null, Null, Null), users, lastId)
     ELSE IF req.method = "DELETE" /\ req.url = UsersUrl
     THEN deleteUserRoute(req, a.user)
     ELSE IF req.method = "PUT" /\ req.url = UsersUrl
     THEN updateUserRoute(req, a.user)
     ELSE IF req.method = "GET"
     THEN Out(Res(200, "retrieved successfully", Null, Null, Null), users, lastId)
     ELSE Out(notFound(req), users, lastId)

\* ---- app: the routes in the order they are mounted
ServerHandle(req) ==
  IF req.method = "POST" /\ req.url = RegisterUrl THEN AuthController_register(req)
  ELSE IF req.method = "POST" /\ req.url = LoginUrl THEN AuthController_login(req)
  ELSE IF req.method = "POST" /\ req.url = RefreshUrl
  THEN LET v == validateToken(req)
       IN IF v.status # 0
          THEN Out(Res(v.status, v.message, Null, Null, Null), users, lastId)
          ELSE Out(AuthController_refreshToken(req), users, lastId)
  ELSE IF req.method = "POST" /\ req.url = LogoutUrl
  THEN Out(AuthController_logout(req), users, lastId)
  ELSE IF req.url \in {UsersUrl, TasksUrl} THEN ProtectedRoute(req)
  ELSE Out(notFound(req), users, lastId)

\* ------------------------------------------------------------------ actions
Init ==
  /\ userSubject = Null
  /\ refreshTokenTimeout = NoTimer
  /\ timers = {}
  /\ authTimeouts = <<>>
  /\ http = EmptyBag
  /\ now = 0
  /\ calls = 0
  /\ users = SeededUsers
  /\ lastId = Cardinality(SeededUsers)
  /\ cookie = Null
  /\ registering = {}

\* The application calls login() and subscribes
LoginResult ==
  LET s1 == logout(Begin("login"), FALSE)
  IN Send(s1, Req("login", LoginUrl, Null, FALSE, "", Null, FALSE))

Login ==
  /\ calls < MaxCalls
  /\ calls' = calls + 1
  /\ Commit(LoginResult)
  /\ UNCHANGED <<now, srvVars>>

\* The application calls logout()
LogoutResult == logout(Begin("logout"), TRUE)

Logout ==
  /\ calls < MaxCalls
  /\ calls' = calls + 1
  /\ Commit(LogoutResult)
  /\ UNCHANGED <<now, srvVars>>

\* AppComponent.ngOnInit calls autoLogin(): the first call, if the component runs
AutoLoginResult ==
  LET s == Begin("autoLogin")
  IN Send(s, Req("verify", VerifyUrl, AuthInterceptor(s, VerifyUrl),
                 FALSE, "", Null, FALSE))

AutoLogin ==
  /\ calls = 0
  /\ calls' = calls + 1
  /\ Commit(AutoLoginResult)
  /\ UNCHANGED <<now, srvVars>>

\* The application requests a URL through HttpClient
ApiCallResult(url) ==
  LET s == Begin("apiCall")
  IN Send(s, Req("api", url, AuthInterceptor(s, url), FALSE, "", Null, FALSE))

ApiCall ==
  /\ calls < MaxCalls
  /\ calls' = calls + 1
  /\ \E url \in AppUrls : Commit(ApiCallResult(url))
  /\ UNCHANGED <<now, srvVars>>

NoBody == [user |-> Null, token |-> Null]

\* The bodies a response to r may carry: every token with a complete user and
\* every user with a good token.  A verify response, whose token autoLogin
\* stores undecoded, carries the opaque token for both undecodable ones.
Bodies(r, status) ==
  IF status = 200 /\ r.kind \in {"login", "verify", "refresh"}
  THEN {[user |-> Alice, token |-> t] :
          t \in IF r.kind = "verify" THEN RespTokens \ {NoExpToken} ELSE RespTokens}
         \cup {[user |-> u, token |-> JwtToken(LongExp)] : u \in UserDatas}
  ELSE {NoBody}

Complete(body) == body.user # Null /\ body.user.id # "" /\ ~Falsy(body.token)

\* The response to request r arrives with the given status and body
ResponseResult(r, status, body) ==
  LET s0 == Begin("response")
      s1 == [s0 EXCEPT !.http = @ (-) SetToBag({r})]
  IN Deliver(s1, r, status, body)

Respond(kind) ==
  /\ \E r \in BagToSet(http) :
       /\ r.kind = kind
       /\ \E status \in Statuses : \E body \in Bodies(r, status) :
            Commit(ResponseResult(r, status, body))
  /\ UNCHANGED <<now, calls, srvVars>>

LoginResponse == Respond("login")
LogoutResponse == Respond("logout")
VerifyResponse == Respond("verify")
RefreshResponse == Respond("refresh")
ApiResponse == Respond("api")

\* The 50 ms callback of handleAuthentication runs, then the promise resolves
AuthApplyResult ==
  LET a == Head(authTimeouts)
      s0 == Begin("authApply")
      s1 == userSubjectNext([s0 EXCEPT !.authq = Tail(@)], a.user)
      s2 == startRefreshTokenTimer(s1)
  IN IF a.origin = "login" THEN EmitLogin(s2, isAuthenticated(s2)) ELSE s2

AuthApply ==
  /\ authTimeouts # <<>>
  /\ Commit(AuthApplyResult)
  /\ UNCHANGED <<now, calls, srvVars>>

\* The refresh timer t fires
TimerFireResult(t) ==
  LET s0 == Begin("timerFire")
  IN SchedulerVerify([s0 EXCEPT !.timers = @ \ {t}])

TimerFire ==
  /\ \E t \in timers :
       /\ now >= t.fireAt
       /\ Commit(TimerFireResult(t))
  /\ UNCHANGED <<now, calls, srvVars>>

\* The router asks the guard about a navigation
CanActivateResult(route, url) == canActivate(Begin("canActivate"), route, url)

Navigate ==
  /\ \E route \in Routes : \E url \in RequestedUrls :
       Commit(CanActivateResult(route, url).s)
  /\ UNCHANGED <<now, calls, srvVars>>

Tick ==
  /\ now < MaxTime
  /\ now' = now + 1
  /\ UNCHANGED <<cliVars, srvVars>>

Next ==
  \/ Login
  \/ Logout
  \/ AutoLogin
  \/ ApiCall
  \/ LoginResponse
  \/ LogoutResponse
  \/ VerifyResponse
  \/ RefreshResponse
  \/ ApiResponse
  \/ AuthApply
  \/ TimerFire
  \/ Navigate
  \/ Tick

Spec == Init /\ [][Next]_vars

\* ----------------------------------------------------------- server actions
MaxUsers == 2       \* ObjectIds the database hands out, the seeded admin included
MaxRegistering == 1 \* register calls between their emailExists check and their insert

\* What clients send
RegEmails == {Email("a"), Email("A"), Email("b"), EmailNoAt}
RegPasswords == {"secret1", "short"}
LoginEmails == {Email("a"), Email("A"), Email("b"), Email("admin"), Email("zed")}
LoginPasswords == {"secret1", "wrong12", "password123"}

AdminPayload == [id |-> AdminDoc.id, email |-> AdminDoc.email, role |-> AdminDoc.role]

\* The tokens a client may present: the browser's cookie value, the token of an
\* administrator who logged in at time 0 from another client, a token issued a
\* week before ShortExp, a token signed with another key, and two non-tokens
PresentedTokens ==
  {EmptyToken, OpaqueToken,
   SignedAt(AdminPayload, JwtSecret, 0),
   SignedAt(AdminPayload, JwtSecret, ShortExp - ExpiresIn),
   SignedAt(AdminPayload, "forged", 0)}
    \cup (IF cookie = Null THEN {} ELSE {cookie})

Authorizations ==
  {Null, [scheme |-> "Basic", token |-> OpaqueToken]}
    \cup {Bearer(t) : t \in PresentedTokens}

\* The browser stores or drops the cookie as the response says
BrowserCookie(res) ==
  IF res.setCookie = Null THEN cookie
  ELSE IF res.setCookie = ClearedCookie THEN Null
  ELSE res.setCookie

\* The server answers req; the browser that sent it takes the response
Serve(req) ==
  LET out == ServerHandle(req)
  IN /\ out.lastId <= MaxUsers
     /\ users' = out.users
     /\ lastId' = out.lastId
     /\ cookie' = BrowserCookie(out.res)
     /\ UNCHANGED <<cliVars, now, registering>>

SrvRegister ==
  \E email \in RegEmails : \E password \in RegPasswords :
    Serve(SrvReq("POST", RegisterUrl, Null, cookie, 0,
                 [name |-> "Alice", email |-> email, password |-> password]))

\* A register call whose emailExists check found nothing waits for the database
SrvRegisterCheck ==
  /\ Cardinality(registering) < MaxRegistering
  /\ \E email \in RegEmails : \E password \in RegPasswords :
       /\ ~emailExists(email)
       /\ registering' = registering \cup
            {[name |-> "Alice", email |-> email, password |-> password]}
  /\ UNCHANGED <<cliVars, now, users, lastId, cookie>>

\* A waiting register call goes on: validation, insert, answer
SrvRegisterSave ==
  \E input \in registering :
    LET out == RegisterAnswer(RegisterSave(input))
    IN /\ out.lastId <= MaxUsers
       /\ users' = out.users
       /\ lastId' = out.lastId
       /\ registering' = registering \ {input}
       /\ UNCHANGED <<cliVars, now, cookie>>

SrvLogin ==
  \E email \in LoginEmails : \E password \in LoginPasswords :
    Serve(SrvReq("POST", LoginUrl, Null, cookie, 0,
                 [email |-> email, password |-> password]))

SrvRefresh ==
  \E authorization \in Authorizations :
    Serve(SrvReq("POST", RefreshUrl, authorization, cookie, 0, Null))

SrvLogout ==
  Serve(SrvReq("POST", LogoutUrl, Null, cookie, 0, Null))

SrvVerify ==
  \E authorization \in Authorizations :
    Serve(SrvReq("GET", VerifyUrl, authorization, cookie, 0, Null))

SrvApi ==
  \E method \in {"GET", "DELETE"} : \E url \in {TasksUrl, UsersUrl} :
    \E authorization \in Authorizations : \E id \in 1..MaxUsers :
      Serve(SrvReq(method, url, authorization, cookie, id, Null))

\* What a profile update sends
UpdateNames == {"", "Bob"}
UpdateEmails == {NoEmail, Email("c")}

SrvUpdateUser ==
  \E authorization \in Authorizations : \E id \in 1..MaxUsers :
    \E name \in UpdateNames : \E email \in UpdateEmails :
      Serve(SrvReq("PUT", UsersUrl, authorization, cookie, id,
                   [name |-> name, email |-> email]))

ServerNext ==
  \/ SrvUpdateUser
  \/ SrvRegister
  \/ SrvRegisterCheck
  \/ SrvRegisterSave
  \/ SrvLogin
  \/ SrvRefresh
  \/ SrvLogout
  \/ SrvVerify
  \/ SrvApi
  \/ Tick

ServerSpec == Init /\ [][ServerNext]_vars

\* =================================================================== claims
\* A property of a handler is stated in the state the handler starts from, for
\* every input the handler may be given there.

InFlight(kind) == {r \in BagToSet(http) : r.kind = kind}

\* The decoded expiry of the token has passed
ExpiryPassed(token) ==
  /\ ~Falsy(token)
  /\ HasExp(parseJwt(token))
  /\ parseJwt(token).exp < now

\* A 50 ms callback of a login is next to run
LoginApplyDue == authTimeouts # <<>> /\ Head(authTimeouts).origin = "login"

\* C1: every login() whose response is 2xx with a non-empty user id and token
\* emits authSuccess = true, and when it emits isAuthenticated() holds, the
\* current user is the user and token of the response, and a refresh timer is armed.
C1_LoginEstablishesSession ==
  /\ \A r \in InFlight("login") : \A body \in Bodies(r, 200) :
       LET d == ResponseResult(r, 200, body)
       IN (Complete(body) /\ d.ev.loginOut # "") =>
            /\ d.ev.loginOut = "next"
            /\ d.ev.authSuccess
            /\ isAuthenticated(d)
            /\ d.user = AuthResponseOf(body.user, body.token)
            /\ d.timers # {}
  /\ LoginApplyDue =>
       LET d == AuthApplyResult
       IN /\ d.ev.loginOut = "next"
          /\ d.ev.authSuccess
          /\ isAuthenticated(d)
          /\ d.user = Head(authTimeouts).user
          /\ d.timers # {}

\* C2: immediately after logout() returns, from any prior state,
\* isAuthenticated() is false and no refresh timer is armed.
C2_LogoutClearsAtOnce ==
  LET d == LogoutResult
  IN ~isAuthenticated(d) /\ d.timers = {}

\* The original requests of C3: not retried, to an API endpoint outside the auth flow
PlainApiRequests == {r \in InFlight("api") : ~r.retry /\ isApiUrl(r.url)}
InterceptRefreshes == {r \in InFlight("refresh") : r.origin = "intercept"}

\* C3: a 401 on a non-auth API request while a session exists makes the error
\* interceptor issue exactly one refresh call; a refresh that succeeds is followed
\* by exactly one retry of the original request; a refresh that fails leads to
\* logout (the session becomes Anonymous) and no retry.
C3_RefreshThenRetryOnce ==
  /\ \A r \in PlainApiRequests :
       userSubject # Null => ResponseResult(r, 401, NoBody).ev.icptCalls = 1
  /\ \A r \in InterceptRefreshes :
       /\ \A body \in Bodies(r, 200) :
            Complete(body) => ResponseResult(r, 200, body).ev.retries = 1
       /\ \A status \in Statuses \ {200} :
            LET d == ResponseResult(r, status, NoBody)
            IN d.ev.retries = 0 /\ d.ev.logouts >= 1
  /\ \A r \in {q \in BagToSet(http) : q.retry} : \A status \in Statuses :
       LET d == ResponseResult(r, status, NoBody)
       IN d.ev.retries = 0 /\ d.ev.icptCalls = 0

\* C4: the request retried after a successful refresh carries the token that
\* refresh returned, not the token sent with the rejected request.
C4_RetryCarriesNewToken ==
  \A r \in InterceptRefreshes : \A body \in Bodies(r, 200) :
    LET d == ResponseResult(r, 200, body)
    IN (Complete(body) /\ d.ev.retries = 1) => d.ev.retryBearer = body.token

\* C5: the error interceptor starts a refresh() call only for a 401 response to a
\* request that is neither the login request nor the refresh request, and only
\* while a session exists; no other handler makes the interceptor call refresh().
C5_RefreshOnlyOnSessionUnauthorized ==
  /\ \A r \in BagToSet(http) : \A status \in Statuses : \A body \in Bodies(r, status) :
       ResponseResult(r, status, body).ev.icptCalls > 0 =>
         /\ status = 401
         /\ ~r.retry
         /\ r.kind \notin {"login", "refresh"}
         /\ r.url # LoginUrl /\ r.url # RefreshUrl
         /\ userSubject # Null
  /\ LoginResult.ev.icptCalls = 0
  /\ LogoutResult.ev.icptCalls = 0
  /\ AutoLoginResult.ev.icptCalls = 0
  /\ \A url \in AppUrls : ApiCallResult(url).ev.icptCalls = 0
  /\ authTimeouts # <<>> => AuthApplyResult.ev.icptCalls = 0
  /\ \A t \in timers : TimerFireResult(t).ev.icptCalls = 0

\* C5 witness: a refresh started by the interceptor for a rejected request is in flight
C5_Witness ==
  \E r \in InterceptRefreshes : r.orig.kind \notin {"login", "refresh"}

\* C6: refresh() called on a session whose token's decoded expiry has passed still
\* sends one reissue request; and a call never sends more than one request.
C6_ExpiredTokenStillRefreshes ==
  \A origin \in {"sched", "intercept"} :
    LET v == verifyToken(Begin("refresh"), origin, Null)
    IN /\ v.s.ev.sent <= 1
       /\ (userSubject # Null /\ ExpiryPassed(userSubject.token)) =>
            (v.sent /\ v.s.ev.sent = 1)

\* C7: a login() that fails with an HTTP error, or whose 2xx response lacks the
\* user, the user id or the token, reports an error (resp. authSuccess = false)
\* and at that moment isAuthenticated() is false and no refresh timer is armed,
\* also when a session existed before the attempt.
C7_FailedLoginLeavesAnonymous ==
  \A r \in InFlight("login") : \A status \in Statuses : \A body \in Bodies(r, status) :
    LET d == ResponseResult(r, status, body)
    IN /\ status # 200 =>
            (d.ev.loginOut = "error" /\ ~isAuthenticated(d) /\ d.timers = {})
       /\ (status = 200 /\ ~Complete(body)) =>
            (d.ev.loginOut = "next" /\ ~d.ev.authSuccess
             /\ ~isAuthenticated(d) /\ d.timers = {})

\* C8: at most one refresh timer is pending, and it is the one the handle names;
\* logout() and login() leave no timer pending.
C8_AtMostOneTimer ==
  /\ Cardinality(timers) <= 1
  /\ \A t \in timers : t.id = refreshTokenTimeout
  /\ LogoutResult.timers = {}
  /\ LoginResult.timers = {}
  /\ authTimeouts # <<>> => Cardinality(AuthApplyResult.timers) <= 1

\* C8 witness: a timer is pending while the callback that arms the next one is due
C8_Witness ==
  /\ timers # {}
  /\ authTimeouts # <<>>
  /\ AuthApplyResult.ev.armed = 1
  /\ WithinBounds(AuthApplyResult)

SchedRefreshes == {r \in InFlight("refresh") : r.origin = "sched"}

\* The ways a refresh response makes verifyToken() fail
RefreshFailures(r) ==
  {<<status, NoBody>> : status \in Statuses \ {200}}
    \cup {<<200, body>> : body \in {b \in Bodies(r, 200) : b.user = Null}}

\* C9: when a scheduler-triggered refresh fails the handler arms no timer and
\* issues no refresh call; and the scheduler issues a refresh call or arms a timer
\* only when a timer fires or in a handler that makes the session Authenticated.
C9_NoRearmAfterFailure ==
  /\ \A r \in SchedRefreshes : \A f \in RefreshFailures(r) :
       LET d == ResponseResult(r, f[1], f[2])
       IN /\ d.ev.armed = 0 /\ d.ev.schedCalls = 0 /\ d.ev.sent = 0
          /\ d.timers \subseteq timers
  /\ \A t \in timers :
       LET d == TimerFireResult(t)
       IN d.ev.armed = 0 /\ d.timers = timers \ {t}
  /\ \A r \in BagToSet(http) : \A status \in Statuses : \A body \in Bodies(r, status) :
       LET d == ResponseResult(r, status, body)
       IN (d.ev.armed > 0 \/ d.ev.schedCalls > 0) =>
            (r.kind = "verify" /\ status = 200 /\ isAuthenticated(d))
  /\ LoginResult.ev.armed = 0 /\ LoginResult.ev.schedCalls = 0
  /\ LogoutResult.ev.armed = 0 /\ LogoutResult.ev.schedCalls = 0
  /\ AutoLoginResult.ev.armed = 0 /\ AutoLoginResult.ev.schedCalls = 0
  /\ \A url \in AppUrls :
       ApiCallResult(url).ev.armed = 0 /\ ApiCallResult(url).ev.schedCalls = 0

\* C9 witness: a scheduler-triggered refresh is in flight on a live session, no
\* timer pending
C9_Witness ==
  /\ SchedRefreshes # {}
  /\ userSubject # Null
  /\ timers = {}

\* What the scheduler must have done in the result d of a handler that made the
\* session Authenticated with a token of decodable expiry
ArmedFor(d) ==
  LET exp == parseJwt(d.user.token).exp
  IN IF exp - Margin > now
     THEN /\ d.ev.armed = 1
          /\ d.ev.schedCalls = 0
          /\ \E id \in 1..2 : d.timers = {[id |-> id, fireAt |-> exp - Margin]}
     ELSE /\ d.ev.armed = 0
          /\ d.ev.schedCalls = 1
          /\ d.timers = {}

ExpiryAhead(token) ==
  /\ ~Falsy(token)
  /\ HasExp(parseJwt(token))
  /\ parseJwt(token).exp > now

\* C11: whenever a handler makes the session state non-null (the 50 ms callback
\* after login or refresh, the answer to autoLogin), the expiry decoded from the
\* stored token is strictly later than the current time at that moment.
C11_StoredTokenNotExpired ==
  /\ authTimeouts # <<>> =>
       LET d == AuthApplyResult
       IN (d.ev.emits > 0 /\ d.user # Null) => ExpiryAhead(d.user.token)
  /\ \A r \in InFlight("verify") : \A body \in Bodies(r, 200) :
       LET d == ResponseResult(r, 200, body)
       IN (d.ev.emits > 0 /\ d.user # Null) => ExpiryAhead(d.user.token)

\* ------------------------------------------------- the client and this server
\* The server's answer to the request r of the client, sent by the browser
\* that holds the cookie
ServerAnswer(r) ==
  ServerHandle(SrvReq(IF r.kind \in {"verify", "api"} THEN "GET" ELSE "POST", r.url,
                      IF r.bearer = Null THEN Null ELSE Bearer(r.bearer),
                      cookie, 0, Null)).res

\* The cookie holds a token that verifies and whose subject exists
CookieValid ==
  /\ cookie # Null
  /\ jwtVerify(cookie).name = ""
  /\ findById(jwtVerify(cookie).decoded.id) # Null

\* The application starts: autoLogin() sends its verify request, this server
\* answers it and the answer is delivered
AutoLoginAnswered ==
  LET s == AutoLoginResult
      r == CHOOSE q \in BagToSet(s.http) : q.kind = "verify"
      res == ServerAnswer(r)
      body == IF res.status = 200 THEN [user |-> res.user, token |-> res.token]
              ELSE NoBody
  IN [res |-> res, d |-> Deliver([s EXCEPT !.http = EmptyBag], r, res.status, body)]

\* C12: when the browser holds a valid, unexpired token cookie of an existing
\* user and the application starts, autoLogin's verify call against this server
\* succeeds, the client becomes Authenticated and the refresh scheduler starts.
C12_AutoLoginRestoresSession ==
  CookieValid =>
    /\ AutoLoginAnswered.res.status = 200
    /\ AutoLoginAnswered.d.user # Null
    /\ AutoLoginAnswered.d.ev.armed + AutoLoginAnswered.d.ev.schedCalls > 0

\* The error statuses of a response
ErrorStatuses == Statuses \ {200}

\* C13: when the verify call of autoLogin fails while the client is Anonymous,
\* the session stays Anonymous, no refresh request and no logout call is made,
\* and no error message is shown to the user.
C13_FailedAutoLoginIsSilent ==
  userSubject = Null =>
    \A r \in InFlight("verify") : \A status \in ErrorStatuses :
      LET d == ResponseResult(r, status, NoBody)
      IN /\ d.user = Null
         /\ d.ev.sent = 0 /\ d.ev.icptCalls = 0
         /\ d.ev.logouts = 0
         /\ d.ev.snack = ""

\* C14: when the logout request fails, the handling of the failure sets the
\* session to null, arms no timer and leaves the refresh timer cancelled, and
\* navigates to /login when navigateToLogin is true.
C14_FailedLogoutStillClears ==
  \A r \in InFlight("logout") : \A status \in ErrorStatuses :
    LET d == ResponseResult(r, status, NoBody)
    IN /\ d.user = Null
       /\ d.ev.armed = 0 /\ d.handle = NoTimer
       /\ r.nav => d.ev.nav = "/login"

\* What the application observes of the client
ClientState(s) == <<s.user, s.handle, s.timers>>

\* C15: logout() while the session is Anonymous is a no-op: neither the call
\* nor the handling of its request's answer changes the session or the timers,
\* navigates, or notifies the subscribers of the session.
C15_LogoutWhenAnonymousIsNoOp ==
  userSubject = Null =>
    /\ ClientState(LogoutResult) = ClientState(Begin("logout"))
    /\ LogoutResult.ev.emits = 0
    /\ \A r \in InFlight("logout") : \A status \in Statuses :
         LET d == ResponseResult(r, status, NoBody)
         IN /\ ClientState(d) = ClientState(Begin("response"))
            /\ d.ev.emits = 0

\* The interceptors' part in the handling of an error answer to r: the
\* catchError of ErrorInterceptor, or, for a request retried after a refresh,
\* the catchError of handleUnauthorizedError
InterceptorResult(r, status) ==
  LET s0 == Begin("response")
      s1 == [s0 EXCEPT !.http = @ (-) SetToBag({r})]
  IN IF r.retry THEN UnauthorizedCatchError(s1) ELSE ErrorInterceptor(s1, r, status).s

\* C20: for a 403 answer the error interceptor starts no refresh and navigates
\* to /tasks; for 403 and every status other than 401 it leaves the session and
\* the refresh timer as they are and calls no logout.
C20_ForbiddenLeavesSession ==
  \A r \in BagToSet(http) : \A status \in ErrorStatuses \ {401} :
    LET d == InterceptorResult(r, status)
    IN /\ status = 403 => (d.ev.sent = 0 /\ d.ev.icptCalls = 0 /\ d.ev.nav = "/tasks")
       /\ ClientState(d) = ClientState(Begin("response"))
       /\ d.ev.logouts = 0

\* ------------------------------------------------------- claims of the server
\* The token has a valid signature, is not expired and its subject exists
TokenGood(token) ==
  /\ token # Null
  /\ jwtVerify(token).name = ""
  /\ findById(jwtVerify(token).decoded.id) # Null

\* The token a request presents: its cookie, else its Authorization header
Presented(req) ==
  IF req.cookie # Null THEN req.cookie ELSE HeaderToken(req)

RefreshRequests ==
  {SrvReq("POST", RefreshUrl, authorization, cookieSent, 0, Null) :
     authorization \in Authorizations, cookieSent \in {Null, cookie}}

\* C16: POST /auth/refresh answers 200 with a new token, set as cookie too,
\* exactly when the presented token verifies and its subject exists; every
\* other request is answered 401 and gets no token.
C16_RefreshIffTokenGood ==
  \A req \in RefreshRequests :
    LET res == ServerHandle(req).res
    IN IF TokenGood(Presented(req))
       THEN res.status = 200 /\ res.token # Null /\ res.setCookie = res.token
       ELSE res.status = 401 /\ res.token = Null /\ res.setCookie = Null

\* The requests that need a token, presenting it as header or as cookie
TokenEndpoints ==
  {<<"POST", RefreshUrl>>, <<"GET", TasksUrl>>, <<"GET", UsersUrl>>,
   <<"DELETE", UsersUrl>>}

\* C17: every endpoint that requires a token answers a request carrying the
\* token as cookie as it answers the request carrying it as Bearer header.
C17_CookieOrHeaderAlike ==
  \A e \in TokenEndpoints : \A token \in PresentedTokens \ {EmptyToken} :
    \A id \in 1..MaxUsers :
      ServerHandle(SrvReq(e[1], e[2], Null, token, id, Null)).res.status
        = ServerHandle(SrvReq(e[1], e[2], Bearer(token), Null, id, Null)).res.status

\* The answer to a login with the given credentials
LoginAnswer(email, password) ==
  ServerHandle(SrvReq("POST", LoginUrl, Null, cookie, 0,
                      [email |-> email, password |-> password])).res

\* C18: a login with an email nobody registered and a login with a wrong
\* password fail alike: the use case raises the same error and both answers
\* are 401 with the message 'Invalid email or password'.
C18_LoginFailuresAlike ==
  \A email \in LoginEmails : \A password \in LoginPasswords :
    LET user == findByEmail(email)
    IN (user = Null \/ ~bcryptCompare(password, user.password)) =>
         /\ LoginUserUseCase([email |-> email, password |-> password]).error
              = "Invalid email or password"
         /\ LoginAnswer(email, password)
              = Res(401, "Invalid email or password", Null, Null, Null)

C18_Witness ==
  \E unknown \in LoginEmails : \E known \in LoginEmails :
    /\ findByEmail(unknown) = Null
    /\ findByEmail(known) # Null /\ findByEmail(known).role = "user"
    /\ LoginAnswer(known, "wrong12").status = 401
    /\ LoginAnswer(unknown, "wrong12") = LoginAnswer(known, "wrong12")

\* The answer to a registration and the collection it leaves
Registration(email, password) ==
  ServerHandle(SrvReq("POST", RegisterUrl, Null, cookie, 0,
                      [name |-> "Alice", email |-> email, password |-> password]))

\* C19: once an email is registered, a registration with that email in any
\* letter case is answered 400 'Email already in use' and adds no record, and
\* findByEmail finds the user under every letter case; no email is stored twice.
C19_EmailUniqueIgnoringCase ==
  /\ \A u \in users : \A v \in users : u.email = v.email => u = v
  /\ \A u \in users : \A email \in RegEmails \cup LoginEmails :
       toLowerCase(email) = toLowerCase(u.email) =>
         /\ findByEmail(email) = u
         /\ \A password \in RegPasswords :
              LET out == Registration(email, password)
              IN /\ out.res.status = 400
                 /\ out.res.message = "Email already in use"
                 /\ out.users = users /\ out.lastId = lastId

C19_Witness ==
  /\ \E u \in users : u.email = Email("a") /\ u.role = "user"
  /\ Registration(Email("A"), "secret1").res.status = 400
  /\ findByEmail(Email("A")) # Null

\* C21: canActivate permits the navigation exactly when a user is present and
\* the route declares no role or the user has it; without a user it returns the
\* /login tree with the requested URL as returnUrl, with a user lacking the
\* role the /tasks tree; it sends nothing and leaves the client as it was.
C21_GuardIsPureFunctionOfSession ==
  \A route \in Routes : \A url \in RequestedUrls :
    LET g == CanActivateResult(route, url)
        permitted == userSubject # Null
                       /\ (route.requiredRole = "" \/ userSubject.role = route.requiredRole)
    IN /\ g.allow <=> permitted
       /\ userSubject = Null => g.tree = UrlTree("/login", url)
       /\ (userSubject # Null /\ ~permitted) => g.tree = UrlTree("/tasks", Null)
       /\ g.s = Begin("canActivate")

C21_Witness ==
  /\ userSubject # Null
  /\ CanActivateResult([requiredRole |-> "user"], <<"tasks">>).allow
  /\ ~CanActivateResult([requiredRole |-> "admin"], <<"admin", "users">>).allow

\* The handler state d when the answer to r, in flight in d, arrives
Arrives(d, r) ==
  [d EXCEPT !.http = @ (-) SetToBag({r}), !.ev = BlankEv("response")]

\* The logout requests login() sent on entry
InternalLogouts(d) == {r \in BagToSet(d.http) : r.kind = "logout" /\ ~r.nav}

\* C22: once login() has reported authSuccess = true, no answer to the logout
\* request that login() sent on entry makes the session null.
C22_InternalLogoutNeverClearsNewSession ==
  (authTimeouts # <<>> /\ Head(authTimeouts).origin = "login") =>
    LET d == AuthApplyResult
    IN d.ev.authSuccess =>
         \A r \in InternalLogouts(d) : \A status \in Statuses :
           Deliver(Arrives(d, r), r, status, NoBody).user # Null

\* The answers to the logout request r of the application that clear the session
Clearings(r) ==
  {d \in {ResponseResult(r, status, NoBody) : status \in Statuses} : d.user = Null}

\* C23: once logout() has cleared the session, the answer to the verify request
\* of autoLogin(), sent before that logout(), neither stores a user nor arms a
\* refresh timer.
C23_ClearedSessionStaysCleared ==
  \A r \in {q \in InFlight("logout") : q.nav} : \A d \in Clearings(r) :
    \A v \in {q \in BagToSet(d.http) : q.kind = "verify"} :
      \A body \in Bodies(v, 200) :
        LET e == Deliver(Arrives(d, v), v, 200, body)
        IN e.user = Null /\ e.ev.armed = 0

\* C24: when the answer to a refresh started on an existing session is accepted
\* and waits to be applied, the session is never Anonymous: isAuthenticated()
\* stays true, the user the subscribers hold is not null and the route guard
\* does not redirect to /login.
C24_RefreshKeepsSessionThroughout ==
  userSubject # Null =>
    \A r \in InFlight("refresh") : \A body \in Bodies(r, 200) :
      LET d == ResponseResult(r, 200, body)
      IN Len(d.authq) > Len(authTimeouts) =>
           /\ isAuthenticated(d)
           /\ d.user # Null
           /\ \A route \in Routes : \A url \in RequestedUrls :
                canActivate(d, route, url).tree # UrlTree("/login", url)

\* The refresh requests in flight, with their multiplicity
RefreshesInFlight == [r \in InFlight("refresh") |-> CopiesIn(r, http)]

\* C25: at most one refresh request is in flight at any time.
C25_OneRefreshInFlight == BagCardinality(RefreshesInFlight) <= 1

\* A register call that waits loses when its email has been stored meanwhile
Losers == {input \in registering : emailExists(input.email)}

\* C26: under every interleaving of register calls for one email, ignoring
\* case, at most one record with that email exists, and every call that loses
\* is answered 400 'Email already in use'.
C26_ConcurrentRegisterCleanError ==
  /\ \A u \in users : \A v \in users :
       toLowerCase(u.email) = toLowerCase(v.email) => u = v
  /\ \A input \in Losers :
       LET out == RegisterAnswer(RegisterSave(input))
       IN /\ out.users = users
          /\ out.res.status = 400
          /\ out.res.message = "Email already in use"

\* C27: when a request to a tasks URL is answered 401 while a session exists,
\* the error interceptor attempts a refresh, and the answer neither clears the
\* session nor logs the user out.
C27_TasksUnauthorizedStillRefreshes ==
  userSubject # Null =>
    \A r \in {q \in InFlight("api") : UrlIncludes(q.url, "tasks") /\ ~q.retry} :
      LET d == ResponseResult(r, 401, NoBody)
      IN /\ d.ev.icptCalls > 0
         /\ d.user = userSubject
         /\ d.ev.logouts = 0

\* C28: applying the session of a successful refresh issues no refresh request;
\* the next refresh waits for the timer.
C28_RefreshedSessionWaitsForTimer ==
  (authTimeouts # <<>> /\ Head(authTimeouts).origin = "refresh") =>
    AuthApplyResult.ev.sent = 0

\* C29: when a session exists while the verify request of autoLogin is still
\* in flight, an error answer to that request leaves the session and its
\* refresh timer as they are.
C29_FailedAutoLoginKeepsNewSession ==
  userSubject # Null =>
    \A r \in InFlight("verify") : \A status \in ErrorStatuses :
      ClientState(ResponseResult(r, status, NoBody)) = ClientState(Begin("response"))

\* The identity a token carries and the identity of a user record
TokenIdentity(token) ==
  <<token.segs[2].id, token.segs[2].email, token.segs[2].role>>
UserIdentity(user) == <<user.id, user.email, user.role>>

====
